---- MODULE Spec2Model ----
(***************************************************************************)
(* Client prioritisation engine of the adviser dashboard                   *)
(* (src/src/prioritisation.js).                                            *)
(*                                                                         *)
(* Number representation.  JavaScript numbers are modelled exactly, as     *)
(* integers in a fixed unit:                                               *)
(*   - a raw metric (AUA, fees, logins, meetings) is held as TWICE its     *)
(*     value, so that halves (2.5 meetings, 74999.5 pounds) are            *)
(*     representable: the field "twice" of a number value;                 *)
(*   - every quantity measured in points (the running score, the rounded   *)
(*     score, the breakdown values) is held in units of 1/Unit point,      *)
(*     Unit being a common denominator of all the divisions the code       *)
(*     makes (/7500, /200, /18, /5 on half-valued inputs, and the          *)
(*     hundredths and tenths of the roundings).                            *)
(* parseInt is modelled as truncation toward zero, which is what it does   *)
(* on the decimal rendering of any number of magnitude in [1e-6, 1e21).    *)
(***************************************************************************)
EXTENDS Integers, Sequences, FiniteSets, TLC

VARIABLES
    client,       \* the record handed to calculatePriority / calculateMetricRankings
    priority,     \* what calculatePriority returned for it
    allClients,   \* the cohort: the array handed to the ranking and statistics
    rankings,     \* what calculateMetricRankings returned
    explanation,  \* what getPriorityExplanation returned
    statistics,   \* what calculateStatistics returned
    dashboard,    \* which Dashboard component runs (the repository has two)
    table,        \* the rows of the client table in the row store
    localStorage, \* the persisted 'completedClients' entry: the ids set to true
    completedClients,  \* the Dashboard state completedClients
    loading,      \* the Dashboard state loading
    error,        \* the Dashboard state error
    inFlight,     \* the fetchAllClientsAndRank calls waiting for the row store
    rendered,     \* the state values the last render closed over
    beforeToggle, \* history: the list and the persisted status as they were
                  \* before the last handleToggleComplete, for its undo
    currentPage,  \* the state currentPage of the paginated table
    limit,        \* the state limit: rows per page
    tableData,    \* the state tableData: the rows of the current page
    req,          \* the request the email handler was invoked with
    apiKey,       \* process.env.OPENAI_API_KEY of the handler
    upstream,     \* the requests the handler made to the OpenAI endpoint
    res,          \* the response the handler returned
    emailContext, \* ClientDetailModal state emailContext
    generatedEmail,  \* ClientDetailModal state generatedEmail
    generating,   \* ClientDetailModal state generating
    emailError,   \* ClientDetailModal state error
    emailRequest  \* the fetch('/api/generate-email') calls not yet settled

dash == <<dashboard, table, localStorage, completedClients, loading, error,
          inFlight, rendered, beforeToggle, currentPage, limit, tableData>>

paging == <<currentPage, limit, tableData>>

serverless == <<req, apiKey, upstream, res>>

modal == <<emailContext, generatedEmail, generating, emailError,
           emailRequest>>

email == <<req, apiKey, upstream, res, emailContext, generatedEmail,
           generating, emailError, emailRequest>>

vars == <<client, priority, allClients, rankings, explanation, statistics,
          dashboard, table, localStorage, completedClients, loading, error,
          inFlight, rendered, beforeToggle, currentPage, limit, tableData,
          req, apiKey, upstream, res, emailContext, generatedEmail,
          generating, emailError, emailRequest>>

(* ---------------------------------------------------------------------- *)
(* Bounds of the input domain                                              *)
(* ---------------------------------------------------------------------- *)

\* Number of half-unit steps explored below each threshold of the code.
Delta == 1

\* Largest number of clients in a cohort.
MaxCohort == 3

\* Largest number of rows in the client table.
MaxRows == 2

\* Largest number of fetchAllClientsAndRank calls in flight at once.
MaxInFlight == 2

\* Largest number of rows in the client table of the paginated dashboard.
MaxPageRows == 6

(* ---------------------------------------------------------------------- *)
(* JavaScript values and coercions                                         *)
(* ---------------------------------------------------------------------- *)

\* A field that is absent from the record (reads as undefined).
Undefined == [kind |-> "undefined", twice |-> 0]
\* A field holding null.
Null == [kind |-> "null", twice |-> 0]
\* A field holding a string with no numeric prefix, such as "n/a".
Text == [kind |-> "string", twice |-> 0]
\* A field holding the number n/2.
Num(n) == [kind |-> "number", twice |-> n]

\* What parseFloat/parseInt return: NaN, or a number (held as twice its value).
NaN == [nan |-> TRUE, twice |-> 0]
Number(n) == [nan |-> FALSE, twice |-> n]

Min(a, b) == IF a <= b THEN a ELSE b

\* parseFloat(v): the number itself; NaN for undefined, null and
\* non-numeric strings.
parseFloat(v) ==
    IF v.kind = "number" THEN Number(v.twice) ELSE NaN

\* parseInt replaced by parseFloat: the fraction of a count is kept.
parseInt_KeepFraction(v) == parseFloat(v)

\* parseInt(v): the integer part of the number (truncated toward zero);
\* NaN for undefined, null and non-numeric strings.
parseInt(v) ==
    IF v.kind = "number"
    THEN IF v.twice >= 0 THEN Number(2 * (v.twice \div 2))
                         ELSE Number(-(2 * ((-v.twice) \div 2)))
    ELSE NaN

\* isNaN(x) ? 1 : x in place of x || 0: a metric that does not parse counts
\* as 1.
OrZero_DefaultOne(x) == IF x.nan THEN 2 ELSE x.twice

\* x || 0 : NaN and 0 are falsy and give 0; every other number, the negative
\* ones included, is truthy and is kept.
OrZero(x) == IF x.nan \/ x.twice = 0 THEN 0 ELSE x.twice

\* The four metrics of a record after coercion (lines 12, 23, 35, 36 and,
\* with the same expressions, lines 68-71), each held as twice its value.
clientAUA(c) == OrZero(parseFloat(c["Total Portfolio AUA"]))
clientFees(c) == OrZero(parseFloat(c["TotalFees"]))
clientLogins(c) == OrZero(parseInt(c["LoginsL12M"]))
clientMeetings(c) == OrZero(parseInt(c["MeetingsL12M"]))

(* ---------------------------------------------------------------------- *)
(* calculatePriority                                                       *)
(* ---------------------------------------------------------------------- *)

\* Points are held in units of 1/Unit: 2*7500, 2*200, 2*18, 2*5, 100 and 10
\* all divide Unit.
Unit == 16 * 9 * 625

Points(n) == n * Unit

\* Math.round of the quotient n/d (d > 0): the nearest integer.  When n/d
\* lies exactly halfway between two integers, Math.round itself rounds
\* toward +infinity, but its argument is a double that carries the rounding
\* errors of the divisions and additions made before (1/200 is not a
\* double), and it may fall on either side of the half: halfUp tells on
\* which side the double arithmetic lands.
MathRound(n, d, halfUp) ==
    LET q == n \div d
        r == n % d
    IN  IF 2 * r > d \/ (2 * r = d /\ halfUp) THEN q + 1 ELSE q

\* The side on which each of the three Math.round calls of calculatePriority
\* lands at an exact half: the score (line 45), the AUA breakdown (line 57)
\* and the fees breakdown (line 58).
Roundings == [score : BOOLEAN, aua : BOOLEAN, fees : BOOLEAN]

\* The 75000 step mistyped as 1 point instead of 10.
auaComponent_StepTypo(aua) ==
    IF aua >= 2 * 600000 THEN Points(50)
    ELSE IF aua >= 2 * 400000 THEN Points(40)
    ELSE IF aua >= 2 * 250000 THEN Points(30)
    ELSE IF aua >= 2 * 150000 THEN Points(20)
    ELSE IF aua >= 2 * 75000 THEN Points(1)
    ELSE Min(aua * (Unit \div (2 * 7500)), Points(5))

\* AUA component, lines 14-19 (aua held as twice its value).
auaComponent(aua) ==
    IF aua >= 2 * 600000 THEN Points(50)
    ELSE IF aua >= 2 * 400000 THEN Points(40)
    ELSE IF aua >= 2 * 250000 THEN Points(30)
    ELSE IF aua >= 2 * 150000 THEN Points(20)
    ELSE IF aua >= 2 * 75000 THEN Points(10)
    ELSE Min(aua * (Unit \div (2 * 7500)), Points(5))

\* Fees component, lines 25-30.
feesComponent(fees) ==
    IF fees >= 2 * 10000 THEN Points(30)
    ELSE IF fees >= 2 * 7500 THEN Points(24)
    ELSE IF fees >= 2 * 5000 THEN Points(18)
    ELSE IF fees >= 2 * 2500 THEN Points(12)
    ELSE IF fees >= 2 * 1000 THEN Points(6)
    ELSE Min(fees * (Unit \div (2 * 200)), Points(3))

\* The logins quotient capped at the whole engagement budget of 20.
loginsComponent_Cap20(logins) ==
    Min(logins * (Unit \div (2 * 18)), Points(20))

\* Logins part of the engagement, line 39.
loginsComponent(logins) == Min(logins * (Unit \div (2 * 18)), Points(10))

\* The meetings quotient capped at the whole engagement budget of 20.
meetingsComponent_Cap20(meetings) ==
    Min(meetings * (Unit \div (2 * 5)), Points(20))

\* Meetings part of the engagement, line 42.
meetingsComponent(meetings) == Min(meetings * (Unit \div (2 * 5)), Points(10))

\* The tiers of the README table: Medium from 45 points.
tierOf_ReadmeTable(score) ==
    IF score >= Points(75) THEN "High"
    ELSE IF score >= Points(45) THEN "Medium"
    ELSE "Low"

\* Tier thresholds, lines 48-51.
tierOf(score) ==
    IF score >= Points(75) THEN "High"
    ELSE IF score >= Points(60) THEN "Medium"
    ELSE "Low"

\* The unrounded sum of the four additions, lines 14-42.
rawScore(aua, fees, logins, meetings) ==
    auaComponent(aua) + feesComponent(fees)
    + loginsComponent(logins) + meetingsComponent(meetings)

\* Math.round(score * 100) / 100, line 45.
roundScore(raw, halfUp) ==
    MathRound(raw, Unit \div 100, halfUp) * (Unit \div 100)

\* breakdown.auaScore, line 57: Math.round((aua / 12000) * 10) / 10 unless
\* the total score is at least 50.
auaScore(aua, score, halfUp) ==
    Min(Points(50),
        IF score >= Points(50) THEN Points(50)
        ELSE MathRound(aua, 2 * 1200, halfUp) * (Unit \div 10))

\* breakdown.feesScore, line 58: Math.round((fees / 500) * 10) / 10.
feesScore(fees, halfUp) ==
    Min(Points(30), MathRound(fees, 2 * 50, halfUp) * (Unit \div 10))

\* breakdown.engagementScore, line 59: the two quotients are not capped
\* separately here, only their sum is.
engagementScore(logins, meetings) ==
    Min(Points(20),
        logins * (Unit \div (2 * 18)) + meetings * (Unit \div (2 * 5)))

calculatePriority(c, fp) ==
    LET aua == clientAUA(c)
        fees == clientFees(c)
        logins == clientLogins(c)
        meetings == clientMeetings(c)
        score == roundScore(rawScore(aua, fees, logins, meetings), fp.score)
    IN  [score |-> score,
         tier |-> tierOf(score),
         breakdown |->
           [auaScore |-> auaScore(aua, score, fp.aua),
            feesScore |-> feesScore(fees, fp.fees),
            engagementScore |-> engagementScore(logins, meetings)]]

(* ---------------------------------------------------------------------- *)
(* calculateMetricRankings                                                 *)
(* ---------------------------------------------------------------------- *)

\* Line 72 and lines 84-85: logins plus meetings.
clientEngagement(c) == clientLogins(c) + clientMeetings(c)

\* [...all].sort((a, b) => key(b) - key(a)), keys[i] being the key of
\* all[i]: a copy of the array in descending order of the key.
\* Array.prototype.sort is stable: members with equal keys keep their
\* relative order.  The member at position i of the array lands after the
\* members of larger key and after the members of equal key that precede it.
sortedBy(all, keys) ==
    LET n == Len(all)
        pos(i) ==
            Cardinality({j \in 1..n : keys[j] > keys[i]})
            + Cardinality({j \in 1..i : keys[j] = keys[i]})
    IN  [p \in 1..n |-> all[CHOOSE i \in 1..n : pos(i) = p]]

\* The same sort with equal keys in reverse order, as an unstable sort may
\* leave them.
sortedByAUA_TiesReversed(all) ==
    LET n == Len(all)
        pos(i) ==
            Cardinality({j \in 1..n : clientAUA(all[j]) > clientAUA(all[i])})
            + Cardinality({j \in i..n : clientAUA(all[j]) = clientAUA(all[i])})
    IN  [p \in 1..n |-> all[CHOOSE i \in 1..n : pos(i) = p]]

\* The comparator written a - b: ascending order.
sortedByAUA_Ascending(all) ==
    LET n == Len(all)
        pos(i) ==
            Cardinality({j \in 1..n : clientAUA(all[j]) < clientAUA(all[i])})
            + Cardinality({j \in 1..i : clientAUA(all[j]) = clientAUA(all[i])})
    IN  [p \in 1..n |-> all[CHOOSE i \in 1..n : pos(i) = p]]

\* Lines 75-77.
sortedByAUA(all) ==
    sortedBy(all, [i \in 1..Len(all) |-> clientAUA(all[i])])

\* The fees sort reading the AUA field.
sortedByFees_CopyPaste(all) ==
    sortedBy(all, [i \in 1..Len(all) |-> clientAUA(all[i])])

\* Lines 79-81.
sortedByFees(all) ==
    sortedBy(all, [i \in 1..Len(all) |-> clientFees(all[i])])

\* Lines 83-87.
sortedByEngagement(all) ==
    sortedBy(all, [i \in 1..Len(all) |-> clientEngagement(all[i])])

\* findIndex reporting a record that is not found as index 0.
findIndex_NotFoundFirst(sorted, id) ==
    IF \E i \in 1..Len(sorted) : sorted[i].id = id
    THEN (CHOOSE i \in 1..Len(sorted) :
            /\ sorted[i].id = id
            /\ \A j \in 1..(i - 1) : sorted[j].id # id) - 1
    ELSE 0

\* sorted.findIndex(c => c.id === id): the 0-based index of the first member
\* with that id, -1 when there is none.
findIndex(sorted, id) ==
    IF \E i \in 1..Len(sorted) : sorted[i].id = id
    THEN (CHOOSE i \in 1..Len(sorted) :
            /\ sorted[i].id = id
            /\ \A j \in 1..(i - 1) : sorted[j].id # id) - 1
    ELSE -1

\* The rank left 0-based.
rankIn_ZeroBased(sorted, c) == findIndex(sorted, c.id)

\* Lines 90-92: findIndex(...) + 1.
rankIn(sorted, c) == findIndex(sorted, c.id) + 1

calculateMetricRankings(c, all) ==
    [auaRank |-> rankIn(sortedByAUA(all), c),
     feesRank |-> rankIn(sortedByFees(all), c),
     engagementRank |-> rankIn(sortedByEngagement(all), c),
     totalClients |-> Len(all)]

\* The three sorts made on the array itself instead of on copies.
arrayAfterRankings_InPlace(all) ==
    sortedByEngagement(sortedByFees(sortedByAUA(all)))

\* The array handed to calculateMetricRankings, after the call: the sorts
\* are made on copies ([...allClients]), the array itself is not written.
arrayAfterRankings(all) == all

(* ---------------------------------------------------------------------- *)
(* getPriorityExplanation                                                  *)
(* ---------------------------------------------------------------------- *)

\* rankings = null (the default of the parameter).
NoRankings == [auaRank |-> -1, feesRank |-> -1, engagementRank |-> -1,
               totalClients |-> -1]

\* Lines 111-136.  rankings?.auaRank and the like are undefined (held as -1)
\* without rankings.  The summary is reduced to its two variable parts, the lower-cased tier and
\* the score; the display strings of the factors ("value") are left out.
toLowerCase(tier) ==
    CASE tier = "High" -> "high"
      [] tier = "Medium" -> "medium"
      [] tier = "Low" -> "low"

getPriorityExplanation(c, p, r) ==
    [summary |-> [tier |-> toLowerCase(p.tier), score |-> p.score],
     factors |->
       << [label |-> "Assets Under Advice",
           contribution |-> p.breakdown.auaScore,
           maxPoints |-> 50, rank |-> r.auaRank],
          [label |-> "Total Fees Paid",
           contribution |-> p.breakdown.feesScore,
           maxPoints |-> 30, rank |-> r.feesRank],
          [label |-> "Engagement (12 months)",
           contribution |-> p.breakdown.engagementScore,
           maxPoints |-> 20, rank |-> r.engagementRank] >>]

NoExplanation == [summary |-> [tier |-> "none", score |-> 0], factors |-> << >>]

(* ---------------------------------------------------------------------- *)
(* calculateStatistics                                                     *)
(* ---------------------------------------------------------------------- *)

\* The counting skips the tier Low.
tierCount_SkipsLow(all, tier) ==
    IF tier = "Low" THEN 0
    ELSE Cardinality({i \in 1..Len(all) : all[i].priority.tier = tier})

\* Lines 143-151: tierCounts[tier] after the forEach.
tierCount(all, tier) ==
    Cardinality({i \in 1..Len(all) : all[i].priority.tier = tier})

RECURSIVE sumOfScores(_)
\* Line 161: allClients.reduce((sum, c) => sum + c.priority.score, 0).
sumOfScores(all) ==
    IF all = << >> THEN 0
    ELSE sumOfScores(SubSeq(all, 1, Len(all) - 1)) + all[Len(all)].priority.score

\* The mean cut to its first two decimals instead of rounded.
toFixed2_Truncated(sum, n, halfUp) ==
    (sum \div (n * (Unit \div 100))) * (Unit \div 100)

\* Line 161: (sum / n).toFixed(2), held in 1/Unit points like the scores: the
\* hundredth nearest to the quotient.  When the quotient of the exact sum
\* lies halfway between two hundredths, the double that toFixed reads may
\* lie on either side: halfUp tells which.
toFixed2(sum, n, halfUp) ==
    MathRound(sum, n * (Unit \div 100), halfUp) * (Unit \div 100)

calculateStatistics(all, halfUp) ==
    [tierDistribution |->
       << [tier |-> "High", count |-> tierCount(all, "High")],
          [tier |-> "Medium", count |-> tierCount(all, "Medium")],
          [tier |-> "Low", count |-> tierCount(all, "Low")] >>,
     totalClients |-> Len(all),
     averageScore |->
       IF Len(all) > 0 THEN toFixed2(sumOfScores(all), Len(all), halfUp) ELSE 0]

NoStatistics == [tierDistribution |-> << >>, totalClients |-> -1,
                 averageScore |-> 0]

(* ---------------------------------------------------------------------- *)
(* Input domain                                                            *)
(* ---------------------------------------------------------------------- *)

\* The values just below and at a threshold t, in half-unit steps.
Near(t) == {Num(2 * t - d) : d \in 0..Delta}

NotNumbers == {Undefined, Null, Text}

AUAValues ==
    NotNumbers
    \cup UNION {Near(t) : t \in {75000, 150000, 250000, 400000, 600000}}
    \cup {Num(2 * v) : v \in {-100000, 0, 37500, 100000, 650000}}

FeesValues ==
    NotNumbers
    \cup UNION {Near(t) : t \in {1000, 2500, 5000, 7500, 10000}}
    \cup {Num(2 * v) : v \in {-200, 0, 1, 1500, 12000}}

LoginsValues ==
    NotNumbers
    \cup Near(180)
    \cup {Num(2 * v) : v \in {-18, 0, 9, 20, 179, 360}}

MeetingsValues ==
    NotNumbers
    \cup Near(50)
    \cup {Num(5)}
    \cup {Num(2 * v) : v \in {-5, 0, 6, 49, 100}}

Client(a, f, l, m) ==
    ("Total Portfolio AUA" :> a) @@ ("TotalFees" :> f)
    @@ ("LoginsL12M" :> l) @@ ("MeetingsL12M" :> m)

Clients ==
    {Client(a, f, l, m) : a \in AUAValues, f \in FeesValues,
                          l \in LoginsValues, m \in MeetingsValues}

\* No priority has been computed yet.
NoPriority == [score |-> 0, tier |-> "none",
               breakdown |-> [auaScore |-> 0, feesScore |-> 0,
                              engagementScore |-> 0]]

(* ---------------------------------------------------------------------- *)
(* Dashboard state                                                         *)
(* ---------------------------------------------------------------------- *)

\* The two Dashboard components of the repository.
DashboardJs == "src/src/Dashboard.js"
Part000 == "src/unnamed/part_000"

\* error: null, or the message a failed fetch sets.
NoError == "null"
FetchError == "Error fetching data"

\* What a render closes over: the state values its handlers and its
\* conditional parts read.
Snapshot(c, l, e) == [completedClients |-> c, loading |-> l, error |-> e]

\* useState(10): the rows per page at mount.
InitialLimit == 10

\* The options of the "Show" selector.
Limits == {5, 10, 25, 50, 100, 999999}

\* allClients.slice((currentPage - 1) * limit, (currentPage - 1) * limit
\* + limit): the rows of a page, none when the page starts past the end.
pageData(all, page, lim) ==
    SubSeq(all, (page - 1) * lim + 1, Min(page * lim, Len(all)))

\* No handleToggleComplete call is remembered.
NoToggle == [calls |-> 0, clientId |-> 0, allClients |-> << >>,
             localStorage |-> {}, renderedSince |-> FALSE]

\* No Dashboard is mounted: the engine functions are called on their own.
NoDashboard ==
    /\ dashboard = "none"
    /\ table = << >>
    /\ localStorage = {}
    /\ completedClients = {}
    /\ loading = FALSE
    /\ error = NoError
    /\ inFlight = 0
    /\ rendered = Snapshot({}, FALSE, NoError)
    /\ beforeToggle = NoToggle
    /\ currentPage = 1
    /\ limit = InitialLimit
    /\ tableData = << >>

(* ---------------------------------------------------------------------- *)
(* Email generation state                                                  *)
(* ---------------------------------------------------------------------- *)

\* A text is a sequence of tokens; the token " " is white space.  '' is
\* the empty sequence.
Space == " "

\* undefined as the value of a name that is not there: an unset
\* environment variable, an absent request body, an absent field of it.
Missing == "undefined"

\* The handler has not been invoked.
NoRequest == [method |-> "none", body |-> [kind |-> Missing]]

\* The handler has not answered.
NoResponse == [status |-> 0, body |-> [unanswered |-> << >>]]

\* useState(''), useState(false), useState(null) of ClientDetailModal.
NoEmailError == <<"null">>

\* No handler runs and no modal is open.
NoEmail ==
    /\ req = NoRequest
    /\ apiKey = Missing
    /\ upstream = << >>
    /\ res = NoResponse
    /\ emailContext = << >>
    /\ generatedEmail = << >>
    /\ generating = FALSE
    /\ emailError = NoEmailError
    /\ emailRequest = << >>

(* ---------------------------------------------------------------------- *)
(* Scorer: one client record is scored                                     *)
(* ---------------------------------------------------------------------- *)

Init ==
    /\ client \in Clients
    /\ priority = NoPriority
    /\ allClients = << >>
    /\ rankings = NoRankings
    /\ explanation = NoExplanation
    /\ statistics = NoStatistics
    /\ NoDashboard
    /\ NoEmail

\* priority: calculatePriority(client)
Score ==
    /\ priority = NoPriority
    /\ \E fp \in Roundings : priority' = calculatePriority(client, fp)
    /\ UNCHANGED <<client, allClients, rankings, explanation, statistics>>
    /\ UNCHANGED dash
    /\ UNCHANGED email

Next == Score

Spec == Init /\ [][Next]_vars

(* ---------------------------------------------------------------------- *)
(* Engine: a cohort is ranked, explained and aggregated                    *)
(* ---------------------------------------------------------------------- *)

\* The metrics of the cohort members: two share the largest AUA, two share
\* the fees, two share the engagement (9 + 2 = 0 + 11), and some fields are
\* missing, null or not numeric.
Profiles ==
    {Client(Num(2 * 650000), Num(2 * 12000), Num(2 * 20), Num(2 * 6)),
     Client(Num(2 * 100000), Num(2 * 1500), Num(2 * 9), Num(5)),
     Client(Num(2 * 650000), Text, Num(2 * 180), Num(2 * 50)),
     Client(Undefined, Num(2 * 1500), Null, Num(2 * 11))}

\* A row of the client table as the dashboard holds it: the row with its
\* priority attached ({...client, priority: calculatePriority(client)}).
Row(id, c) ==
    {("id" :> id) @@ c @@ ("priority" :> calculatePriority(c, fp)) :
        fp \in Roundings}

\* The rows that may stand at position i of a cohort: the identifier is the
\* row's own, or (from the second row on) that of the first row again.
RowsAt(i) == UNION {Row(id, c) : id \in {1, i}, c \in Profiles}

RECURSIVE CohortsOfLen(_)
CohortsOfLen(n) ==
    IF n = 0 THEN {<< >>}
    ELSE {Append(all, r) : all \in CohortsOfLen(n - 1), r \in RowsAt(n)}

Cohorts == UNION {CohortsOfLen(n) : n \in 0..MaxCohort}

\* A client that is in no cohort.
Outsiders == Row(0, CHOOSE c \in Profiles : TRUE)

Members(all) == {all[i] : i \in 1..Len(all)}

InitEngine ==
    /\ allClients \in Cohorts
    /\ client \in Members(allClients) \cup Outsiders
    /\ priority = NoPriority
    /\ rankings = NoRankings
    /\ explanation = NoExplanation
    /\ statistics = NoStatistics
    /\ NoDashboard
    /\ NoEmail

\* rankings: calculateMetricRankings(client, allClients), as the detail view
\* of the selected client calls it.
Rank ==
    /\ rankings = NoRankings
    /\ explanation = NoExplanation
    /\ statistics = NoStatistics
    /\ rankings' = calculateMetricRankings(client, allClients)
    /\ allClients' = arrayAfterRankings(allClients)
    /\ UNCHANGED <<client, priority, explanation, statistics>>
    /\ UNCHANGED dash
    /\ UNCHANGED email

\* explanation: getPriorityExplanation(client, priority, rankings), with the
\* rankings or without them.
Explain ==
    /\ priority # NoPriority
    /\ explanation = NoExplanation
    /\ statistics = NoStatistics
    /\ explanation' = getPriorityExplanation(client, priority, rankings)
    /\ UNCHANGED <<client, priority, allClients, rankings, statistics>>
    /\ UNCHANGED dash
    /\ UNCHANGED email

\* statistics: calculateStatistics(allClients).
Stats ==
    /\ statistics = NoStatistics
    /\ rankings = NoRankings
    /\ priority = NoPriority
    /\ \E halfUp \in BOOLEAN :
          statistics' = calculateStatistics(allClients, halfUp)
    /\ UNCHANGED <<client, priority, allClients, rankings, explanation>>
    /\ UNCHANGED dash
    /\ UNCHANGED email

NextEngine == Score \/ Rank \/ Explain \/ Stats

SpecEngine == InitEngine /\ [][NextEngine]_vars

(* ---------------------------------------------------------------------- *)
(* Dashboard: the client table is fetched, scored, sorted and marked       *)
(* ---------------------------------------------------------------------- *)

\* Array.prototype.sort with a comparator, before being the pairs <<i, j>>
\* of positions such that the comparator puts list[i] before list[j]: a
\* stable sort, elements the comparator does not separate keep their order.
sorted(list, before) ==
    LET n == Len(list)
        same(i, j) == <<i, j>> \notin before /\ <<j, i>> \notin before
        pos(i) == Cardinality({j \in 1..n : <<j, i>> \in before})
                  + Cardinality({j \in 1..i : same(j, i)})
    IN  [p \in 1..n |-> list[CHOOSE i \in 1..n : pos(i) = p]]

\* (a, b) => b.priority.score - a.priority.score
byScore(list) ==
    {ij \in (1..Len(list)) \X (1..Len(list)) :
        list[ij[1]].priority.score > list[ij[2]].priority.score}

\* The scores compared as a - b: the groups in ascending order.
byCompletedThenScore_Ascending(list) ==
    {ij \in (1..Len(list)) \X (1..Len(list)) :
        LET a == list[ij[1]]
            b == list[ij[2]]
        IN  IF a.completed # b.completed THEN b.completed
            ELSE a.priority.score < b.priority.score}

\* (a, b) => a.completed !== b.completed ? (a.completed ? 1 : -1)
\*                                       : b.priority.score - a.priority.score
byCompletedThenScore(list) ==
    {ij \in (1..Len(list)) \X (1..Len(list)) :
        LET a == list[ij[1]]
            b == list[ij[2]]
        IN  IF a.completed # b.completed THEN b.completed
            ELSE a.priority.score > b.priority.score}

\* src/src/Dashboard.js: the rows with their priority, sorted by score.
rankedByScore(data, fp) ==
    LET dataWithPriority ==
            [i \in 1..Len(data) |->
                data[i] @@ ("priority" :> calculatePriority(data[i], fp))]
    IN  sorted(dataWithPriority, byScore(dataWithPriority))

\* src/unnamed/part_000: the rows with their priority and their completed
\* flag read from the stored status, completed rows sorted to the bottom.
rankedCompletedLast(data, currentCompletedStatus, fp) ==
    LET dataWithPriority ==
            [i \in 1..Len(data) |->
                data[i] @@ ("priority" :> calculatePriority(data[i], fp))
                        @@ ("completed" :>
                               (data[i].ClientID \in currentCompletedStatus))]
    IN  sorted(dataWithPriority, byCompletedThenScore(dataWithPriority))

\* The update without its re-sort: the row stays where it was.
toggled_NoResort(prevClients, clientId, isCurrentlyCompleted) ==
    [i \in 1..Len(prevClients) |->
        IF prevClients[i].ClientID = clientId
        THEN [prevClients[i] EXCEPT !.completed = ~isCurrentlyCompleted]
        ELSE prevClients[i]]

\* handleToggleComplete's update of the list: the flag of the row is set
\* and the list sorted again.
toggled(prevClients, clientId, isCurrentlyCompleted) ==
    LET updated ==
            [i \in 1..Len(prevClients) |->
                IF prevClients[i].ClientID = clientId
                THEN [prevClients[i] EXCEPT
                         !.completed = ~isCurrentlyCompleted]
                ELSE prevClients[i]]
    IN  sorted(updated, byCompletedThenScore(updated))

\* The metrics of the rows of the client table: a client of tier High and a
\* client of tier Low (two rows may hold the same metrics, and so the same
\* score).
TableProfiles ==
    {Client(Num(2 * 650000), Num(2 * 12000), Num(2 * 20), Num(2 * 6)),
     Client(Num(2 * 100000), Num(2 * 1500), Num(2 * 9), Num(5))}

\* The client tables: row i has ClientID i and the metrics of a profile.
RECURSIVE TablesOfLen(_)
TablesOfLen(n) ==
    IF n = 0 THEN {<< >>}
    ELSE {Append(t, ("ClientID" :> n) @@ c) :
            t \in TablesOfLen(n - 1), c \in TableProfiles}

Tables == UNION {TablesOfLen(n) : n \in 0..MaxRows}

\* The Dashboard after its mount effect: nothing is stored, the first fetch
\* waits for the row store, and the page shows "Loading data...".
InitDashboard ==
    /\ dashboard \in {DashboardJs, Part000}
    /\ table \in Tables
    /\ localStorage = {}
    /\ completedClients = {}
    /\ allClients = << >>
    /\ loading = TRUE
    /\ error = NoError
    /\ inFlight = 1
    /\ rendered = Snapshot({}, TRUE, NoError)
    /\ beforeToggle = NoToggle
    /\ currentPage = 1
    /\ limit = InitialLimit
    /\ tableData = << >>
    /\ client = CHOOSE c \in TableProfiles : TRUE
    /\ priority = NoPriority
    /\ rankings = NoRankings
    /\ explanation = NoExplanation
    /\ statistics = NoStatistics
    /\ NoEmail

engine == <<client, priority, rankings, explanation, statistics>>

\* The Refresh button is on the page: always in src/src/Dashboard.js, with
\* the client list (no loading, no error) in src/unnamed/part_000.
RefreshShown ==
    \/ dashboard = DashboardJs
    \/ dashboard = Part000 /\ ~rendered.loading /\ rendered.error = NoError

\* fetchAllClientsAndRank up to its await: a click on Refresh.
FetchStart ==
    /\ RefreshShown
    /\ inFlight < MaxInFlight
    /\ loading' = TRUE
    /\ error' = NoError
    /\ inFlight' = inFlight + 1
    /\ UNCHANGED <<allClients, dashboard, table, localStorage,
                   completedClients, rendered>>
    /\ beforeToggle' = NoToggle
    /\ UNCHANGED paging
    /\ UNCHANGED engine
    /\ UNCHANGED email

\* fetchAllClientsAndRank after its await, the row store having answered
\* with the rows.  (No profile of the tables has a rounding tie, so one
\* choice of rounding serves all the rows.)
FetchSucceeds ==
    /\ inFlight > 0
    /\ \E fp \in Roundings :
          allClients' = IF dashboard = DashboardJs
                        THEN rankedByScore(table, fp)
                        ELSE rankedCompletedLast(table, localStorage, fp)
    /\ tableData' = pageData(allClients', currentPage, limit)
    /\ UNCHANGED <<currentPage, limit>>
    /\ loading' = FALSE
    /\ inFlight' = inFlight - 1
    /\ UNCHANGED <<dashboard, table, localStorage, completedClients, error,
                   rendered>>
    /\ beforeToggle' = NoToggle
    /\ UNCHANGED engine
    /\ UNCHANGED email

\* fetchAllClientsAndRank after its await, the row store having answered
\* with an error or thrown.
FetchFails ==
    /\ inFlight > 0
    /\ error' = FetchError
    /\ loading' = FALSE
    /\ inFlight' = inFlight - 1
    /\ UNCHANGED <<allClients, dashboard, table, localStorage,
                   completedClients, rendered>>
    /\ beforeToggle' = NoToggle
    /\ UNCHANGED paging
    /\ UNCHANGED engine
    /\ UNCHANGED email

\* The history after a handleToggleComplete(clientId): a second call on the
\* same client with a render in between is the undo of the first; any other
\* call that reads an up-to-date completedClients while no fetch is pending
\* is a first call.
remembered(clientId) ==
    IF /\ beforeToggle.calls = 1
       /\ beforeToggle.clientId = clientId
       /\ beforeToggle.renderedSince
    THEN [beforeToggle EXCEPT !.calls = 2]
    ELSE IF rendered.completedClients = completedClients /\ inFlight = 0
    THEN [calls |-> 1, clientId |-> clientId, allClients |-> allClients,
          localStorage |-> localStorage, renderedSince |-> FALSE]
    ELSE NoToggle

\* handleToggleComplete(clientId): a click on the button of a listed row.
\* The handler reads the completedClients of the render it belongs to.
HandleToggleComplete ==
    /\ dashboard = Part000
    /\ ~rendered.loading /\ rendered.error = NoError
    /\ \E i \in 1..Len(allClients) :
          LET clientId == allClients[i].ClientID
              isCurrentlyCompleted == clientId \in rendered.completedClients
              updatedStatus ==
                  IF isCurrentlyCompleted
                  THEN rendered.completedClients \ {clientId}
                  ELSE rendered.completedClients \cup {clientId}
          IN  /\ localStorage' = updatedStatus
              /\ completedClients' = updatedStatus
              /\ allClients' = toggled(allClients, clientId,
                                       isCurrentlyCompleted)
              /\ beforeToggle' = remembered(clientId)
    /\ tableData' = pageData(allClients', currentPage, limit)
    /\ UNCHANGED <<currentPage, limit>>
    /\ UNCHANGED <<dashboard, table, loading, error, inFlight, rendered>>
    /\ UNCHANGED engine
    /\ UNCHANGED email

\* The component renders again with the current state.  A completed undo
\* is remembered until this render.
Render ==
    /\ rendered # Snapshot(completedClients, loading, error)
    /\ rendered' = Snapshot(completedClients, loading, error)
    /\ beforeToggle' = IF beforeToggle.calls = 1
                       THEN [beforeToggle EXCEPT !.renderedSince = TRUE]
                       ELSE NoToggle
    /\ UNCHANGED <<allClients, dashboard, table, localStorage,
                   completedClients, loading, error, inFlight>>
    /\ UNCHANGED paging
    /\ UNCHANGED engine
    /\ UNCHANGED email

NextDashboard ==
    FetchStart \/ FetchSucceeds \/ FetchFails \/ HandleToggleComplete \/ Render

SpecDashboard == InitDashboard /\ [][NextDashboard]_vars

(* ---------------------------------------------------------------------- *)
(* Paginated table of src/src/Dashboard.js                                 *)
(* ---------------------------------------------------------------------- *)

\* Math.ceil(totalCount / limit)
totalPages(totalCount, lim) == (totalCount + lim - 1) \div lim

\* The client tables of the paginated dashboard: row i has ClientID i; the
\* metrics are the same in all rows (they play no part in the paging).
RECURSIVE PageTablesOfLen(_)
PageTablesOfLen(n) ==
    IF n = 0 THEN << >>
    ELSE Append(PageTablesOfLen(n - 1),
                ("ClientID" :> n) @@ (CHOOSE c \in TableProfiles : TRUE))

PageTables == {PageTablesOfLen(n) : n \in 0..MaxPageRows}

\* src/src/Dashboard.js after its mount effect.
InitPagination ==
    /\ dashboard = DashboardJs
    /\ table \in PageTables
    /\ localStorage = {}
    /\ completedClients = {}
    /\ allClients = << >>
    /\ loading = TRUE
    /\ error = NoError
    /\ inFlight = 1
    /\ rendered = Snapshot({}, TRUE, NoError)
    /\ beforeToggle = NoToggle
    /\ currentPage = 1
    /\ limit = InitialLimit
    /\ tableData = << >>
    /\ client = CHOOSE c \in TableProfiles : TRUE
    /\ priority = NoPriority
    /\ rankings = NoRankings
    /\ explanation = NoExplanation
    /\ statistics = NoStatistics
    /\ NoEmail

\* Rows are added to the client table or deleted from it by its other
\* users, between two fetches.
RowsChange ==
    /\ table' \in PageTables \ {table}
    /\ UNCHANGED <<allClients, dashboard, localStorage, completedClients,
                   loading, error, inFlight, rendered, beforeToggle>>
    /\ UNCHANGED paging
    /\ UNCHANGED engine
    /\ UNCHANGED email

\* The Previous and Next buttons are on the page: the table is shown and
\* has more than one page.
PaginationShown ==
    /\ ~rendered.loading /\ rendered.error = NoError
    /\ Len(tableData) > 0
    /\ totalPages(Len(allClients), limit) > 1

\* handlePageChange(currentPage - 1) or handlePageChange(currentPage + 1): a
\* click on Previous (disabled on page 1) or on Next (disabled on the last
\* page), and the effect that follows it (updateDisplayedData).
HandlePageChange ==
    /\ PaginationShown
    /\ \E newPage \in {currentPage - 1, currentPage + 1} :
          /\ newPage = currentPage - 1 => currentPage # 1
          /\ newPage = currentPage + 1
                => currentPage # totalPages(Len(allClients), limit)
          /\ currentPage' = newPage
          /\ tableData' = pageData(allClients, newPage, limit)
    /\ UNCHANGED <<allClients, dashboard, table, localStorage,
                   completedClients, loading, error, inFlight, rendered,
                   beforeToggle, limit>>
    /\ UNCHANGED engine
    /\ UNCHANGED email

\* handleLimitChange(newLimit): a choice in the "Show" selector, and the
\* effect that follows it (updateDisplayedData).
HandleLimitChange ==
    /\ \E newLimit \in Limits \ {limit} :
          /\ limit' = newLimit
          /\ currentPage' = 1
          /\ tableData' = pageData(allClients, 1, newLimit)
    /\ UNCHANGED <<allClients, dashboard, table, localStorage,
                   completedClients, loading, error, inFlight, rendered,
                   beforeToggle>>
    /\ UNCHANGED engine
    /\ UNCHANGED email

NextPagination ==
    \/ FetchStart \/ FetchSucceeds \/ FetchFails \/ Render
    \/ RowsChange \/ HandlePageChange \/ HandleLimitChange

SpecPagination == InitPagination /\ [][NextPagination]_vars

(* ---------------------------------------------------------------------- *)
(* Email handler: the serverless function api/generate-email.js, as        *)
(* printed in src/README.md                                                *)
(* ---------------------------------------------------------------------- *)

\* String.prototype.trim: the white space of both ends is removed.
RECURSIVE trimStart(_)
trimStart(text) ==
    IF text # << >> /\ Head(text) = Space
    THEN trimStart(Tail(text))
    ELSE text

RECURSIVE trimEnd(_)
trimEnd(text) ==
    IF text # << >> /\ text[Len(text)] = Space
    THEN trimEnd(SubSeq(text, 1, Len(text) - 1))
    ELSE text

trim(text) == trimEnd(trimStart(text))

\* text || fallback: '' and undefined (both held as << >>) are falsy.
orElse(text, fallback) == IF text = << >> THEN fallback ELSE text

\* !apiKey is false: the variable is set to a non-empty string.
truthy(key) == key \notin {Missing, ""}

\* res.status(status).json(body)
json(status, body) == [status |-> status, body |-> body]

\* The catch block: 500 with the message of what was thrown.
caught(message) ==
    json(500, [error |-> orElse(message, <<"Internal server error">>)])

\* What destructuring an undefined req.body throws.
CannotDestructure ==
    <<"Cannot destructure property 'client' of 'req.body' as it is undefined.">>

\* The request methods, the values of OPENAI_API_KEY, and the request
\* bodies: none (a POST without a parsed body), or an object whose client
\* and priority are there or not and whose adviserContext is absent or ''
\* (both << >>), blank, or a sentence.
Methods == {"GET", "POST"}

Keys == {Missing, "", "sk-proj-A", "sk-proj-B"}

Contexts == {<< >>, <<Space>>, <<"Following up on the Q4 review">>}

Bodies ==
    {[kind |-> Missing]}
    \cup {[kind |-> "object", client |-> c, priority |-> p,
           adviserContext |-> a] :
            c \in {Missing, "C001"}, p \in {Missing, "High"},
            a \in Contexts}

Requests == {[method |-> mt, body |-> b] : mt \in Methods, b \in Bodies}

\* buildEmailPrompt: the client, the tier, and the adviser context when it
\* is not blank.
buildEmailPrompt(c, p, adviserContext) ==
    <<"Generate a personalized outreach email for the following client:",
      c, p>>
    \o (IF adviserContext # << >> /\ trim(adviserContext) # << >>
        THEN <<"Adviser Context: ">> \o adviserContext
        ELSE << >>)

\* The guards before the upstream call: the response they return, or
\* NoResponse when the handler goes on to call the OpenAI endpoint.
guards(r, key) ==
    IF r.method # "POST"
    THEN json(405, [error |-> <<"Method not allowed">>])
    ELSE IF r.body.kind = Missing
    THEN caught(CannotDestructure)
    ELSE IF r.body.client = Missing \/ r.body.priority = Missing
    THEN json(400, [error |-> <<"Missing required client or priority data">>])
    ELSE IF ~ truthy(key)
    THEN json(500, [error |-> <<"OpenAI API key not configured">>])
    ELSE NoResponse

\* The fetch of the OpenAI endpoint: the Authorization header carries the
\* key, the body carries the prompt.
upstreamRequest(r, key) ==
    [url |-> "https://api.openai.com/v1/chat/completions",
     authorization |-> <<"Bearer ", key>>,
     prompt |-> buildEmailPrompt(r.body.client, r.body.priority,
                                 r.body.adviserContext)]

\* openAiResponse.ok
ok(status) == status \in 200..299

\* What the upstream call can come to:
\*   rejected     fetch throws (network failure), with a message or none;
\*   unparseable  a response whose json() throws;
\*   error        a non-ok response with a JSON body, whose error.message
\*                is there or not (<< >>);
\*   malformed    an ok response whose JSON has no choices array, so that
\*                data.choices[0] throws;
\*   completion   an ok response with its choices: none, or one whose
\*                content is there or not (<< >>).
NoOutcome == [kind |-> "pending", status |-> 0, message |-> << >>,
              choices |-> << >>]

UpstreamOutcomes ==
    {[kind |-> "rejected", status |-> 0, message |-> msg,
      choices |-> << >>] : msg \in {<<"fetch failed">>, << >>}}
    \cup {[kind |-> "unparseable", status |-> s,
           message |-> <<"Unexpected token < in JSON at position 0">>,
           choices |-> << >>] : s \in {200, 502}}
    \cup {[kind |-> "error", status |-> s, message |-> msg,
           choices |-> << >>] :
            s \in {401, 429, 500},
            msg \in {<<"You exceeded your current quota">>, << >>}}
    \cup {[kind |-> "malformed", status |-> 200,
           message |-> <<"Cannot read properties of undefined (reading '0')">>,
           choices |-> << >>]}
    \cup {[kind |-> "completion", status |-> 200, message |-> << >>,
           choices |-> ch] :
            ch \in {<< >>, << << >> >>,
                    << <<Space, "Dear client,", Space, "Best regards",
                         Space, Space>> >>,
                    << <<"Dear client,">> >>}}

\* The handler from the answer of the upstream call to its response.
settled(outcome) ==
    CASE outcome.kind \in {"rejected", "unparseable", "malformed"} ->
           caught(outcome.message)
      [] outcome.kind = "error" ->
           json(outcome.status,
                [error |-> <<"OpenAI API error: ">>
                           \o orElse(outcome.message, <<"Unknown error">>)])
      [] outcome.kind = "completion" ->
           json(200,
                [email |-> trim(IF outcome.choices = << >>
                                THEN << >>
                                ELSE outcome.choices[1])])
      [] OTHER -> NoResponse

\* The response of the handler to a request, under a key and an upstream
\* outcome.
handler_EchoesAuthorization(r, key, outcome) ==
    IF guards(r, key) # NoResponse
    THEN guards(r, key)
    ELSE IF outcome.kind = "error"
    THEN json(outcome.status,
              [error |-> <<"OpenAI API error: ">>
                         \o upstreamRequest(r, key).authorization])
    ELSE settled(outcome)

handler(r, key, outcome) ==
    IF guards(r, key) # NoResponse
    THEN guards(r, key)
    ELSE settled(outcome)

\* A request reaches the function.
InitHandler ==
    /\ req \in Requests
    /\ apiKey \in Keys
    /\ upstream = << >>
    /\ res = NoResponse
    /\ emailContext = << >>
    /\ generatedEmail = << >>
    /\ generating = FALSE
    /\ emailError = NoEmailError
    /\ emailRequest = << >>
    /\ NoDashboard
    /\ allClients = << >>
    /\ client = CHOOSE c \in TableProfiles : TRUE
    /\ priority = NoPriority
    /\ rankings = NoRankings
    /\ explanation = NoExplanation
    /\ statistics = NoStatistics

\* The handler runs to its first return or to the await of the upstream
\* fetch.
HandlerRuns ==
    /\ res = NoResponse
    /\ upstream = << >>
    /\ IF guards(req, apiKey) # NoResponse
       THEN /\ res' = guards(req, apiKey)
            /\ upstream' = upstream
       ELSE /\ upstream' = <<[request |-> upstreamRequest(req, apiKey),
                              outcome |-> NoOutcome]>>
            /\ res' = res
    /\ UNCHANGED <<req, apiKey>>
    /\ UNCHANGED modal
    /\ UNCHANGED allClients
    /\ UNCHANGED dash
    /\ UNCHANGED engine

\* The upstream call comes to an outcome and the handler runs to its
\* return.
UpstreamSettles ==
    /\ res = NoResponse
    /\ upstream # << >>
    /\ \E outcome \in UpstreamOutcomes :
         /\ upstream' = <<[upstream[1] EXCEPT !.outcome = outcome]>>
         /\ res' = handler(req, apiKey, outcome)
    /\ UNCHANGED <<req, apiKey>>
    /\ UNCHANGED modal
    /\ UNCHANGED allClients
    /\ UNCHANGED dash
    /\ UNCHANGED engine

NextHandler == HandlerRuns \/ UpstreamSettles

SpecHandler == InitHandler /\ [][NextHandler]_vars

(* ---------------------------------------------------------------------- *)
(* Email generation in ClientDetailModal (src/src/ClientDetailModal.js,    *)
(* src/unnamed/part_003)                                                   *)
(* ---------------------------------------------------------------------- *)

\* The body handleGenerateEmail posts: client and priority are object
\* literals, adviserContext is the state emailContext.
modalRequest(context) ==
    [method |-> "POST",
     body |-> [kind |-> "object", client |-> "C001", priority |-> "High",
               adviserContext |-> context]]

\* What fetch('/api/generate-email') can resolve to: a response of the
\* handler, or a page that is not JSON, put in its place by the platform
\* (a gateway timeout, a route that is not deployed, the development
\* server's index page).
NotJson ==
    {[status |-> s, body |-> [html |-> <<"<!DOCTYPE html>">>]] :
        s \in {200, 404, 504}}

Responses(context) ==
    {handler(modalRequest(context), apiKey, outcome) :
        outcome \in UpstreamOutcomes}
    \cup NotJson

\* The messages a rejected fetch carries.
FetchFailures == {<<"Failed to fetch">>, << >>}

\* await response.json() throws.
unparseable(response) == "html" \in DOMAIN response.body

\* errorData.error and data.email: the field, or undefined (<< >>).
fieldOf(body, name) == IF name \in DOMAIN body THEN body[name] ELSE << >>

\* The message of what the try block throws once the response is there,
\* or NoEmailError when it runs to its end.
failure(response) ==
    IF unparseable(response)
    THEN <<"Unexpected token < in JSON at position 0">>
    ELSE IF ~ ok(response.status)
    THEN orElse(fieldOf(response.body, "error"),
                <<"Failed to generate email">>)
    ELSE NoEmailError

\* disabled={generating}: the Generate button cannot be clicked.
generateDisabled_Never == FALSE

generateDisabled == generating

\* The modal is opened on a client.
InitModal ==
    /\ req = NoRequest
    /\ apiKey \in Keys
    /\ upstream = << >>
    /\ res = NoResponse
    /\ emailContext = << >>
    /\ generatedEmail = << >>
    /\ generating = FALSE
    /\ emailError = NoEmailError
    /\ emailRequest = << >>
    /\ NoDashboard
    /\ allClients = << >>
    /\ client = CHOOSE c \in TableProfiles : TRUE
    /\ priority = NoPriority
    /\ rankings = NoRankings
    /\ explanation = NoExplanation
    /\ statistics = NoStatistics

\* The adviser edits the context: onChange of the textarea.
ChangeContext ==
    /\ \E context \in Contexts \ {emailContext} :
         emailContext' = context
    /\ UNCHANGED <<generatedEmail, generating, emailError, emailRequest>>
    /\ UNCHANGED serverless
    /\ UNCHANGED allClients
    /\ UNCHANGED dash
    /\ UNCHANGED engine

\* A click on Generate Email: handleGenerateEmail up to the await of the
\* fetch.  The state updates of a click are rendered before the next click
\* is delivered, so the button reads the current generating.
HandleGenerateEmail ==
    /\ ~ generateDisabled
    /\ generating' = TRUE
    /\ emailError' = NoEmailError
    /\ generatedEmail' = << >>
    /\ emailRequest' = Append(emailRequest,
                              [request |-> modalRequest(emailContext),
                               response |-> NoResponse])
    /\ UNCHANGED emailContext
    /\ UNCHANGED serverless
    /\ UNCHANGED allClients
    /\ UNCHANGED dash
    /\ UNCHANGED engine

\* The sequence without its i-th element.
without(list, i) == SubSeq(list, 1, i - 1) \o SubSeq(list, i + 1, Len(list))

\* The fetch rejects: catch, then finally.
FetchRejects ==
    /\ \E i \in 1..Len(emailRequest) :
         /\ emailRequest[i].response = NoResponse
         /\ \E message \in FetchFailures : emailError' = message
         /\ emailRequest' = without(emailRequest, i)
    /\ generating' = FALSE
    /\ UNCHANGED <<emailContext, generatedEmail>>
    /\ UNCHANGED serverless
    /\ UNCHANGED allClients
    /\ UNCHANGED dash
    /\ UNCHANGED engine

\* The fetch resolves: the handler goes on to await response.json().
ResponseArrives ==
    /\ \E i \in 1..Len(emailRequest) :
         /\ emailRequest[i].response = NoResponse
         /\ \E response \in
                Responses(emailRequest[i].request.body.adviserContext) :
              emailRequest' =
                  [emailRequest EXCEPT ![i].response = response]
    /\ UNCHANGED <<emailContext, generatedEmail, generating, emailError>>
    /\ UNCHANGED serverless
    /\ UNCHANGED allClients
    /\ UNCHANGED dash
    /\ UNCHANGED engine

\* response.json() settles: the email is set, or what was thrown is
\* caught; then finally.
BodyRead ==
    /\ \E i \in 1..Len(emailRequest) :
         /\ emailRequest[i].response # NoResponse
         /\ IF failure(emailRequest[i].response) # NoEmailError
            THEN /\ emailError' = failure(emailRequest[i].response)
                 /\ UNCHANGED generatedEmail
            ELSE /\ generatedEmail' =
                        fieldOf(emailRequest[i].response.body, "email")
                 /\ UNCHANGED emailError
         /\ emailRequest' = without(emailRequest, i)
    /\ generating' = FALSE
    /\ UNCHANGED emailContext
    /\ UNCHANGED serverless
    /\ UNCHANGED allClients
    /\ UNCHANGED dash
    /\ UNCHANGED engine

NextModal ==
    \/ ChangeContext
    \/ HandleGenerateEmail
    \/ FetchRejects
    \/ ResponseArrives
    \/ BodyRead

SpecModal == InitModal /\ [][NextModal]_vars

(* ---------------------------------------------------------------------- *)
(* Properties of calculatePriority                                         *)
(* ---------------------------------------------------------------------- *)

\* calculatePriority has returned.
Scored == priority # NoPriority

\* The record with one field replaced.
WithField(c, k, v) == [c EXCEPT ![k] = v]

Fields == {"Total Portfolio AUA", "TotalFees", "LoginsL12M", "MeetingsL12M"}

\* The values the input domain offers for a field.
ValuesOf(k) ==
    CASE k = "Total Portfolio AUA" -> AUAValues
      [] k = "TotalFees" -> FeesValues
      [] k = "LoginsL12M" -> LoginsValues
      [] k = "MeetingsL12M" -> MeetingsValues

IsNegative(v) == v.kind = "number" /\ v.twice < 0
IsNonNegative(v) == v.kind = "number" /\ v.twice >= 0

\* The engagement contribution to the score of a record: the two capped
\* quotients added at lines 39 and 42.
engagementComponent(c) ==
    loginsComponent(clientLogins(c)) + meetingsComponent(clientMeetings(c))

\* The scores calculatePriority can return for a record.
ScoresOf(c) == {calculatePriority(c, fp).score : fp \in Roundings}

\* C1: for every client record, negative values included, the returned
\* score satisfies 0 <= score <= 100.
C1_ScoreInRange ==
    Scored => (0 <= priority.score /\ priority.score <= Points(100))

Scenario1 == Client(Num(2 * 650000), Num(2 * 12000), Num(2 * 20), Num(2 * 6))

\* C3: scenario 1 yields an engagement contribution of 20, score = 100.00
\* and tier = High.
C3_Scenario1 ==
    (Scored /\ client = Scenario1) =>
      /\ engagementComponent(client) = Points(20)
      /\ priority.score = Points(100)
      /\ priority.tier = "High"

\* Scenario 3 of the specification: AUA=100000, fees=1500, logins=9,
\* meetings=2.5.
Scenario3 == Client(Num(2 * 100000), Num(2 * 1500), Num(2 * 9), Num(5))

\* C4 as stated: scenario 3 yields AUA component 10, fees component 6,
\* engagement 0.5 + 0.5 = 1, score = 17.00 and tier = Low.
C4_Scenario3_Original ==
    (Scored /\ client = Scenario3) =>
      /\ auaComponent(clientAUA(client)) = Points(10)
      /\ feesComponent(clientFees(client)) = Points(6)
      /\ engagementComponent(client) = Points(1)
      /\ priority.score = Points(17)
      /\ priority.tier = "Low"

\* C4 amended: in scenario 3 the 2.5 meetings are parsed as the integer 2,
\* so the engagement is 0.5 + 0.4 = 0.9, the score 16.90 and the tier Low
\* (AUA component 10, fees component 6).
C4_Scenario3 ==
    (Scored /\ client = Scenario3) =>
      /\ auaComponent(clientAUA(client)) = Points(10)
      /\ feesComponent(clientFees(client)) = Points(6)
      /\ clientMeetings(client) = 2 * 2
      /\ 10 * engagementComponent(client) = Points(9)
      /\ 10 * priority.score = Points(169)
      /\ priority.tier = "Low"

\* Scenario 3 has been scored.
C4_Witness == Scored /\ client = Scenario3 /\ 10 * priority.score = Points(169)

\* The record with every negative metric replaced by 0.
ZeroNegatives(c) ==
    [k \in DOMAIN c |-> IF IsNegative(c[k]) THEN Num(0) ELSE c[k]]

\* C5: negative values are coerced to 0 before any arithmetic: a client with
\* a negative metric gets the same score and tier as the same client with
\* that metric equal to 0.
C5_NegativeCoercedToZero ==
    Scored =>
      \E fp \in Roundings :
        LET p == calculatePriority(ZeroNegatives(client), fp)
        IN  priority.score = p.score /\ priority.tier = p.tier

\* The record with every missing, null or non-numeric metric replaced by 0.
ZeroNotNumbers(c) ==
    [k \in DOMAIN c |-> IF c[k] \in NotNumbers THEN Num(0) ELSE c[k]]

\* C6: calculatePriority returns a result for every record, and a client
\* whose metrics are missing, null or non-numeric strings gets exactly the
\* score, tier and breakdown of the client with those metrics explicitly 0.
C6_NotNumbersScoreAsZero ==
    Scored =>
      /\ priority.tier \in {"High", "Medium", "Low"}
      /\ (\E k \in Fields : client[k] \in NotNumbers) =>
            \E fp \in Roundings :
              priority = calculatePriority(ZeroNotNumbers(client), fp)
      /\ (\A k \in Fields : client[k] \in NotNumbers) =>
            \A fp \in Roundings :
              priority = calculatePriority(Client(Num(0), Num(0), Num(0), Num(0)), fp)

\* A client with one metric missing, one null and two non-numeric has been
\* scored 0.
C6_Witness ==
    /\ Scored
    /\ client = Client(Undefined, Null, Text, Text)
    /\ priority.score = 0 /\ priority.tier = "Low"

C8_BreakdownSumsToScore ==
    Scored =>
      priority.breakdown.auaScore + priority.breakdown.feesScore
        + priority.breakdown.engagementScore = priority.score

\* The four addends of the score of a record.  The double arithmetic of
\* lines 14-45 reads nothing else of the record: two records with the same
\* addends get the same score.
Addends(c) ==
    <<auaComponent(clientAUA(c)), feesComponent(clientFees(c)),
      loginsComponent(clientLogins(c)), meetingsComponent(clientMeetings(c))>>

\* C9: the score is monotone non-decreasing in each metric taken separately:
\* raising only one metric of a client (other fields fixed, all values
\* non-negative) never lowers the score, whatever the score of the raised
\* client rounds to.
C9_Monotone ==
    (Scored /\ \A k \in Fields : IsNonNegative(client[k])) =>
      \A k \in Fields :
        \A v \in ValuesOf(k) :
          (/\ IsNonNegative(v)
           /\ v.twice > client[k].twice
           /\ Addends(WithField(client, k, v)) # Addends(client)) =>
            \A s \in ScoresOf(WithField(client, k, v)) : s >= priority.score

\* A client just below the 75000 AUA step has been scored below the client
\* that differs from it only by sitting on the step.
C9_Witness ==
    /\ Scored
    /\ client["Total Portfolio AUA"] = Num(2 * 75000 - 1)
    /\ \A k \in Fields : IsNonNegative(client[k])
    /\ \A s \in ScoresOf(WithField(client, "Total Portfolio AUA", Num(2 * 75000))) :
          s > priority.score

\* The client is at or above every top threshold.
AtEveryTopThreshold(c) ==
    /\ clientAUA(c) >= 2 * 600000
    /\ clientFees(c) >= 2 * 10000
    /\ clientLogins(c) >= 2 * 180
    /\ clientMeetings(c) >= 2 * 50

Ranked == rankings # NoRankings

\* calculateStatistics has returned.
Aggregated == statistics # NoStatistics

\* The cohort's identifiers are unique.
UniqueIds ==
    \A i, j \in 1..Len(allClients) :
        i # j => allClients[i].id # allClients[j].id

\* The cohort contains a member with the target's identifier.
InCohort == \E i \in 1..Len(allClients) : allClients[i].id = client.id

\* The position in the cohort of the member with the target's identifier.
Target == CHOOSE i \in 1..Len(allClients) : allClients[i].id = client.id

\* The three metrics the ranking orders by, read from the fields.
MetricAUA(c) == clientAUA(c)
MetricFees(c) == clientFees(c)
MetricEngagement(c) == clientLogins(c) + clientMeetings(c)

\* The metric of the given name.
Metric(m, c) ==
    CASE m = "aua" -> MetricAUA(c)
      [] m = "fees" -> MetricFees(c)
      [] m = "engagement" -> MetricEngagement(c)

\* Number of members with a strictly larger value of metric m than member t.
Above(m, t) ==
    Cardinality({j \in 1..Len(allClients) :
                    Metric(m, allClients[j]) > Metric(m, allClients[t])})

\* Number of members that precede member t with the same value.
TiedBefore(m, t) ==
    Cardinality({j \in 1..(t - 1) :
                    Metric(m, allClients[j]) = Metric(m, allClients[t])})

\* No two members of the cohort have the same value of the metric.
NoTies(m) ==
    \A i, j \in 1..Len(allClients) :
        i # j => Metric(m, allClients[i]) # Metric(m, allClients[j])

\* C11: for a cohort of size N with unique identifiers that contains the
\* target, the three ranks are integers in [1, N] and totalClients = N.
C11_RanksInRange ==
    (Ranked /\ UniqueIds /\ InCohort) =>
      /\ rankings.auaRank \in 1..Len(allClients)
      /\ rankings.feesRank \in 1..Len(allClients)
      /\ rankings.engagementRank \in 1..Len(allClients)
      /\ rankings.totalClients = Len(allClients)

\* A member of a cohort of at least two has been ranked first on one metric
\* and last on another.
C11_Witness ==
    /\ Ranked /\ UniqueIds /\ InCohort
    /\ Len(allClients) >= 2
    /\ rankings.auaRank = 1
    /\ rankings.feesRank = Len(allClients)

\* C12 as stated: every client whose AUA equals the maximum AUA of the
\* cohort receives auaRank = 1, including when several clients share that
\* maximum (here even with unique identifiers).
C12_MaxAUARankOne_Original ==
    (Ranked /\ UniqueIds /\ InCohort /\ Above("aua", Target) = 0) =>
      rankings.auaRank = 1

\* C12 amended: of the clients whose AUA equals the maximum AUA of the
\* cohort, the one that comes first in the cohort receives auaRank = 1; one
\* that is preceded by k clients sharing the maximum receives 1 + k.
C12_MaxAUARankOne ==
    (Ranked /\ UniqueIds /\ InCohort /\ Above("aua", Target) = 0) =>
      rankings.auaRank = 1 + TiedBefore("aua", Target)

\* A client with the maximum AUA, preceded by another with the same AUA, has
\* been ranked second.
C12_Witness ==
    /\ Ranked /\ UniqueIds /\ InCohort
    /\ Above("aua", Target) = 0
    /\ TiedBefore("aua", Target) = 1
    /\ rankings.auaRank = 2

\* The rank of the target on a metric without ties is one more than the
\* number of members with a larger value.
RankCountsAbove(m, rank) == NoTies(m) => rank = 1 + Above(m, Target)

\* The ranks of all the members of the cohort on one metric.
RanksOfAll(field) ==
    {calculateMetricRankings(allClients[i], allClients)[field] :
        i \in 1..Len(allClients)}

\* C13: for a metric on which no two members tie, the ranks of the N members
\* form a bijection onto 1..N, ordered by descending value of the metric: a
\* member's rank is one more than the number of members with a larger value.
C13_NoTiesBijection ==
    (Ranked /\ UniqueIds /\ InCohort) =>
      /\ RankCountsAbove("aua", rankings.auaRank)
      /\ RankCountsAbove("fees", rankings.feesRank)
      /\ RankCountsAbove("engagement", rankings.engagementRank)
      /\ NoTies("aua") => RanksOfAll("auaRank") = 1..Len(allClients)
      /\ NoTies("fees") => RanksOfAll("feesRank") = 1..Len(allClients)
      /\ NoTies("engagement") =>
            RanksOfAll("engagementRank") = 1..Len(allClients)

\* Scenario 4: in a cohort of two with different AUA, the client with the
\* smaller AUA has been ranked second of two.
C13_Witness ==
    /\ Ranked /\ UniqueIds /\ InCohort
    /\ Len(allClients) = 2
    /\ NoTies("aua") /\ NoTies("fees")
    /\ Above("aua", Target) = 1
    /\ rankings.auaRank = 2 /\ rankings.totalClients = 2
    /\ rankings.feesRank = 1

C15_NotFoundRankZero ==
    (Ranked /\ ~InCohort) =>
      /\ rankings.auaRank = 0
      /\ rankings.feesRank = 0
      /\ rankings.engagementRank = 0
      /\ rankings.totalClients = Len(allClients)

\* A client that is not in a non-empty cohort has been ranked.
C15_Witness ==
    /\ Ranked /\ ~InCohort
    /\ Len(allClients) >= 2
    /\ rankings.auaRank = 0

\* C16: the High, Medium and Low counts of calculateStatistics sum to the
\* cohort size, which is totalClients.
C16_TierCountsSum ==
    Aggregated =>
      /\ Len(statistics.tierDistribution) = 3
      /\ statistics.tierDistribution[1].tier = "High"
      /\ statistics.tierDistribution[2].tier = "Medium"
      /\ statistics.tierDistribution[3].tier = "Low"
      /\ statistics.tierDistribution[1].count
           + statistics.tierDistribution[2].count
           + statistics.tierDistribution[3].count = Len(allClients)
      /\ statistics.totalClients = Len(allClients)

\* A cohort with a client of each tier has been aggregated.
C16_Witness ==
    /\ Aggregated
    /\ statistics.tierDistribution[1].count >= 1
    /\ statistics.tierDistribution[2].count >= 1
    /\ statistics.tierDistribution[3].count >= 1

\* The sum of the members' scores, read from the cohort.
ScoreSum ==
    LET RECURSIVE upTo(_)
        upTo(k) == IF k = 0 THEN 0
                   ELSE upTo(k - 1) + allClients[k].priority.score
    IN  upTo(Len(allClients))

Abs(x) == IF x >= 0 THEN x ELSE -x

\* C17: averageScore is the arithmetic mean of the members' scores rounded
\* to 2 decimal places (a multiple of 0.01 at most 0.005 away from the mean)
\* for a non-empty cohort; an empty cohort gives three counts of 0 and
\* averageScore 0.
C17_AverageScore ==
    Aggregated =>
      IF Len(allClients) = 0
      THEN /\ statistics.averageScore = 0
           /\ \A k \in 1..3 : statistics.tierDistribution[k].count = 0
      ELSE /\ statistics.averageScore % (Unit \div 100) = 0
           /\ 2 * Abs(Len(allClients) * statistics.averageScore - ScoreSum)
                <= Len(allClients) * (Unit \div 100)

\* A cohort of three whose mean score is not a multiple of 0.01 has been
\* aggregated.
C17_Witness ==
    /\ Aggregated
    /\ Len(allClients) = 3
    /\ Len(allClients) * statistics.averageScore # ScoreSum

C19_ReadmeTiers ==
    priority # NoPriority =>
      /\ (Points(75) <= priority.score /\ priority.score <= Points(100))
            => priority.tier = "High"
      /\ (Points(45) <= priority.score /\ priority.score < Points(75))
            => priority.tier = "Medium"
      /\ (0 <= priority.score /\ priority.score < Points(45))
            => priority.tier = "Low"

(* ---------------------------------------------------------------------- *)
(* Properties of the Dashboard                                             *)
(* ---------------------------------------------------------------------- *)

\* The scores of the list never go up from one global rank to the next.
NonIncreasing(list) ==
    \A k \in 1..(Len(list) - 1) :
        list[k].priority.score >= list[k + 1].priority.score

\* The not completed rows come first, and the scores never go up from one
\* global rank to the next between two rows with the same completed flag.
NonIncreasingCompletedLast(list) ==
    \A k \in 1..(Len(list) - 1) :
        IF list[k].completed = list[k + 1].completed
        THEN list[k].priority.score >= list[k + 1].priority.score
        ELSE list[k + 1].completed

C24_CompletedMatchesStored ==
    dashboard = Part000 =>
      \A i \in 1..Len(allClients) :
          allClients[i].completed
            <=> allClients[i].ClientID \in localStorage

\* C26: in src/src/Dashboard.js, loading is true whenever a
\* fetchAllClientsAndRank call is in flight, and false once none is.
C26_LoadingWhileInFlight ==
    dashboard = DashboardJs => (loading <=> inFlight > 0)

\* C27: when the row-store query fails, error becomes a non-null message,
\* loading returns to false and allClients keeps its value; a successful
\* fetch that comes later resets error to null and replaces allClients.
C27_FailedFetchKeepsList ==
    [][/\ FetchFails =>
            /\ error' # NoError
            /\ ~loading'
            /\ allClients' = allClients
       /\ FetchSucceeds =>
            /\ error' = NoError
            /\ ~loading'
            /\ Len(allClients') = Len(table)]_vars

\* Before the first of the two calls, the completed flags of the list agreed
\* with the persisted status.
AgreedBeforeToggle ==
    \A i \in 1..Len(beforeToggle.allClients) :
        beforeToggle.allClients[i].completed
          <=> beforeToggle.allClients[i].ClientID \in beforeToggle.localStorage

\* C25: in src/unnamed/part_000, marking a client completed and undoing it
\* (two handleToggleComplete calls on the same ClientID with a render in
\* between) restores the persisted completed set, every client's completed
\* flag and the order of allClients, other clients with the same priority
\* score included.
C25_UndoRestores ==
    (beforeToggle.calls = 2 /\ AgreedBeforeToggle) =>
      /\ localStorage = beforeToggle.localStorage
      /\ allClients = beforeToggle.allClients

\* C30: in the paginated table of src/src/Dashboard.js, after any sequence
\* of page changes, limit changes and refreshes that change the number of
\* clients, 1 <= currentPage <= max(1, ceil(allClients.length / limit)), and
\* the displayed rows are allClients[(currentPage-1)*limit ..
\* currentPage*limit).
C30_CurrentPageValid ==
    dashboard = DashboardJs =>
      /\ 1 <= currentPage
      /\ currentPage <= IF totalPages(Len(allClients), limit) > 1
                        THEN totalPages(Len(allClients), limit)
                        ELSE 1
      /\ tableData = pageData(allClients, currentPage, limit)

\* C29: breakdown.auaScore depends only on the client's AUA: a client that
\* differs from the scored one in fees, logins or meetings only gets the
\* same breakdown.auaScore, and a client with AUA = 0 gets auaScore = 0.
C29_AuaScoreFromAUAOnly ==
    Scored =>
      /\ clientAUA(client) = 0 => priority.breakdown.auaScore = 0
      /\ \A k \in Fields \ {"Total Portfolio AUA"} :
           \A v \in ValuesOf(k) :
             \E fp \in Roundings :
               calculatePriority(WithField(client, k, v), fp)
                   .breakdown.auaScore
                 = priority.breakdown.auaScore

(* ---------------------------------------------------------------------- *)
(* Properties of the email handler                                         *)
(* ---------------------------------------------------------------------- *)

\* The handler has returned its response.
Responded == res # NoResponse

\* The handler has called the OpenAI endpoint.
CalledUpstream == upstream # << >>

\* What the upstream call came to, if it was made and has settled.
OutcomeSeen == IF CalledUpstream THEN upstream[1].outcome ELSE NoOutcome

\* The key is one of the tokens of the text.
Mentions(text, key) == \E i \in 1..Len(text) : text[i] = key

\* The texts of the response body, whatever its fields.
BodyTexts == {res.body[f] : f \in DOMAIN res.body}

MissingData ==
    \/ req.body.kind = Missing
    \/ req.body.client = Missing
    \/ req.body.priority = Missing

\* The handler received an upstream response that is not ok.
UpstreamNotOk ==
    /\ OutcomeSeen.kind \in {"unparseable", "error"}
    /\ ~ ok(OutcomeSeen.status)

\* The handler received an upstream response that is ok.
UpstreamOk ==
    /\ OutcomeSeen.kind \in {"unparseable", "malformed", "completion"}
    /\ ok(OutcomeSeen.status)

\* The upstream call is made only after the three guards passed.
CalledOnlyAfterGuards ==
    CalledUpstream =>
      /\ req.method = "POST"
      /\ ~ MissingData
      /\ truthy(apiKey)

\* The three guards answer 405, 400, 500 in this order.
GuardStatus ==
    Responded =>
      /\ req.method # "POST" => res.status = 405
      /\ req.method = "POST" /\ MissingData => res.status = 400
      /\ req.method = "POST" /\ ~ MissingData /\ ~ truthy(apiKey)
           => res.status = 500

\* A non-ok upstream response is passed on with its status.
NotOkPassedOn ==
    Responded /\ UpstreamNotOk =>
      /\ res.status = OutcomeSeen.status
      /\ DOMAIN res.body = {"error"}

\* Only an ok upstream response gives 200, with the trimmed email.
OnlyOkGives200 ==
    Responded /\ res.status = 200 =>
      /\ UpstreamOk
      /\ OutcomeSeen.kind = "completion"
      /\ DOMAIN res.body = {"email"}
      /\ res.body.email # << >> =>
           /\ Head(res.body.email) # Space
           /\ res.body.email[Len(res.body.email)] # Space
           /\ \E i, j \in 1..Len(OutcomeSeen.choices[1]) :
                res.body.email = SubSeq(OutcomeSeen.choices[1], i, j)

\* C23: the handler calls the OpenAI endpoint only after the guards passed;
\* a non-POST method gets 405, otherwise a request without client or
\* priority gets 400, otherwise an unset key gets 500, none of them with an
\* upstream call; a non-ok upstream response is returned with its status
\* and an error field; only an ok upstream response gives 200 with the
\* trimmed email.
C23_GuardsThenUpstream ==
    /\ CalledOnlyAfterGuards
    /\ GuardStatus
    /\ NotOkPassedOn
    /\ OnlyOkGives200

\* The same for the requests that carry a body and the upstream responses
\* whose body is JSON.
C23_WithBodyAndJson ==
    (req.body.kind # Missing /\ OutcomeSeen.kind # "unparseable")
      => C23_GuardsThenUpstream

(* ---------------------------------------------------------------------- *)
(* Properties of the email generation in ClientDetailModal                 *)
(* ---------------------------------------------------------------------- *)

\* The text is shown: neither null nor ''.
NonEmpty(text) == text \notin {NoEmailError, << >>}

\* generating is true exactly while a request is in flight, and at most
\* one is; error and generatedEmail are never both non-empty.
GeneratingWhileInFlight ==
    /\ generating = (emailRequest # << >>)
    /\ Len(emailRequest) <= 1
    /\ ~ (NonEmpty(emailError) /\ NonEmpty(generatedEmail))

\* A step that starts a request sets generating and clears error and
\* generatedEmail; a step that settles one clears generating.
StartClearsSettleResets ==
    /\ Len(emailRequest') > Len(emailRequest)
         => /\ generating'
            /\ emailError' = NoEmailError
            /\ generatedEmail' = << >>
    /\ Len(emailRequest') < Len(emailRequest) => ~ generating'

\* C28: in ClientDetailModal generating is true exactly while an email
\* request is in flight; handleGenerateEmail sets it and clears error and
\* generatedEmail; no second request starts while one is in flight; when
\* the request settles (success, non-ok response, thrown error) generating
\* is false again, and error and generatedEmail are never both non-empty.
C28_GeneratingExactlyInFlight ==
    [](GeneratingWhileInFlight) /\ [][StartClearsSettleResets]_vars

\* C28's case: a request was sent and has settled with an error, the
\* button is enabled again and no email is shown.
C28_Witness ==
    /\ ~ generating
    /\ emailRequest = << >>
    /\ NonEmpty(emailError)
    /\ generatedEmail = << >>
====
